---- MODULE Spec2Model ----
(***************************************************************************)
(* The image routes of PhotoShare (src/routes/images.py): every handler of *)
(* the /images router as the steps one request takes between its awaits,   *)
(* run by concurrently served requests over the Image and TransformedImage *)
(* tables, the remote storage service and the rate limiter's counters.     *)
(*                                                                         *)
(* The repository layer (src/repository/images.py), the role gate          *)
(* (src/services/roles.py) and the limiter's key are defined outside the   *)
(* routes module; they follow the design document's sections 4.1, 4.2,     *)
(* 4.4 and 4.6.                                                            *)
(*                                                                         *)
(* A request record carries, beside the handler's locals, history fields   *)
(* the handler does not have (calls, reads, found, denied, removed): they  *)
(* record what the request did, and the properties are stated over them.   *)
(***************************************************************************)
EXTENDS Integers, FiniteSets, Sequences, TLC

VARIABLES images, transformed, assets, hits, window, req, started, nextId, nextTid

vars == <<images, transformed, assets, hits, window, req, started, nextId, nextTid>>

(* ------------------------------ bounds ------------------------------- *)

\* Requests issued in one behaviour.
MaxRequests == 2

\* random.randint(1, 1000000) draws from 1..MaxRand here.
MaxRand == 2

\* Requests served at the same time.
Slots == {1, 2}

(* ------------------------------ actors ------------------------------- *)

Users == {1, 2, 3}

Role(u) == CASE u = 1 -> "admin"
             [] u = 2 -> "moderator"
             [] OTHER -> "user"

Email(u) == <<"email", u>>

(* ----------------------------- constants ----------------------------- *)

max_size == 5 * 1024 * 1024

\* Payload lengths at the limit and past it.
FileSizes == {max_size, max_size + 1}

NoLink == <<>>

NoImage == [id |-> 0, user_id |-> 0, link |-> NoLink, description |-> ""]

NoResponse == [status |-> 0, detail |-> "", data |-> {}, payload |-> <<>>]

Response(status, detail, data, payload) ==
    [status |-> status, detail |-> detail, data |-> data, payload |-> payload]

NotFound == Response(404, "Image not found", {}, <<>>)

ServerError == Response(500, "Internal Server Error", {}, <<>>)

IdleRequest ==
    [op |-> "none", pc |-> "idle", user |-> 0, image_id |-> 0, size |-> 0,
     description |-> "", image |-> NoImage, link |-> NoLink,
     sent |-> NoLink, calls |-> 0, reads |-> 0, found |-> NoImage,
     denied |-> FALSE, removed |-> FALSE, resp |-> NoResponse]

(* ------------------------ remote storage service --------------------- *)

PublicId(namespace, u, n) == <<namespace, Email(u), n>>

SecureUrl(public_id) == <<"https://res.cloudinary.com">> \o public_id

\* cloudinary.uploader.upload either returns a result holding secure_url or
\* raises; a call that raises stores and returns nothing.
CloudResults(public_id) ==
    { [ok |-> TRUE, secure_url |-> SecureUrl(public_id)],
      [ok |-> FALSE, secure_url |-> NoLink] }

Stored(result) == IF result.ok THEN assets \cup {result.secure_url} ELSE assets

RaisedNever(result) == FALSE

Raised(result) == ~result.ok

(* ------------------------------ the state ---------------------------- *)

\* The database already holds one image, uploaded earlier by user 1.
FirstImage ==
    [id |-> 1, user_id |-> 1, link |-> SecureUrl(PublicId("PhotoShare", 1, 1)),
     description |-> "d1"]

Init ==
    /\ images = (1 :> FirstImage)
    /\ transformed = {}
    /\ assets = {FirstImage.link}
    /\ hits = [u \in Users |-> 0]
    /\ window = [u \in Users |-> [passed |-> 0, refused |-> 0]]
    /\ req = [s \in Slots |-> IdleRequest]
    /\ started = 0
    /\ nextId = 2
    /\ nextTid = 1

Free(s) == req[s].pc \in {"idle", "done"}

Finish(s, r, response) ==
    req' = [req EXCEPT ![s] = [r EXCEPT !.pc = "done", !.resp = response]]

(* ----------------------------- rate limiter -------------------------- *)

\* An identifier a caller may send: every identifier issued so far and the
\* next one, which no row has yet.
ImageIds == 1..nextId

Raw(db, image_id) == IF image_id \in DOMAIN db THEN db[image_id] ELSE NoImage

TooManyRequests == Response(429, "Too Many Requests", {}, <<>>)

UploadTimesTwice == 1 + 1

UploadTimes == 1

\* A request may arrive while requests are left to issue. Free slots are
\* interchangeable: the lowest one takes the request.
Arrives(s) ==
    /\ Free(s)
    /\ \A o \in Slots : o < s => ~Free(o)
    /\ started < MaxRequests
    /\ started' = started + 1

\* An upload arrives. RateLimiter(times=1, seconds=10) runs before the
\* handler: one atomic test-and-increment of the counter kept for the caller.
\* The counter's key lives for the window: a key that has run out is found
\* gone, and the count restarts.
UploadLimiter(s) ==
    /\ Arrives(s)
    /\ \E u \in Users, size \in FileSizes, expired \in BOOLEAN :
         LET r == [IdleRequest EXCEPT !.op = "upload", !.user = u, !.size = size,
                                      !.description = "d1"]
             count == IF expired THEN 0 ELSE hits[u]
             w == IF expired THEN [passed |-> 0, refused |-> 0] ELSE window[u]
         IN /\ expired => hits[u] > 0
            /\ IF count >= UploadTimes
               THEN /\ Finish(s, r, TooManyRequests)
                    /\ window' = [window EXCEPT ![u] = [w EXCEPT !.refused = @ + 1]]
                    /\ hits' = [hits EXCEPT ![u] = count]
               ELSE /\ hits' = [hits EXCEPT ![u] = count + 1]
                    /\ window' = [window EXCEPT ![u] = [w EXCEPT !.passed = @ + 1]]
                    /\ req' = [req EXCEPT ![s] = [r EXCEPT !.pc = "body"]]
    /\ UNCHANGED <<images, transformed, assets, nextId, nextTid>>

\* A request of another limited route arrives and its limiter lets it
\* through. The counters of these routes are not kept: a request they turn
\* away ends with 429 before the handler and leaves no trace.
RouteLimiter(s) ==
    /\ Arrives(s)
    /\ \E u \in Users, i \in ImageIds,
          op \in {"delete", "update", "get", "crop", "effect", "qrcode"} :
         req' = [req EXCEPT ![s] = [IdleRequest EXCEPT !.op = op, !.pc = "body",
                   !.user = u, !.image_id = i,
                   !.description = IF op = "update" THEN "d2" ELSE ""]]
    /\ UNCHANGED <<images, transformed, assets, hits, window, nextId, nextTid>>

(* --------------------------- access policy --------------------------- *)

\* Read class: the owner, a moderator or an admin.
CanRead(u, image) == Role(u) \in {"admin", "moderator"} \/ image.user_id = u

\* Update and delete: the owner or an admin.
CanWrite(u, image) == Role(u) = "admin" \/ image.user_id = u

CanDeleteAsRead(u, image) == CanRead(u, image)

CanDelete(u, image) == CanWrite(u, image)

Redacted(image) == [NoImage EXCEPT !.id = image.id]

get_image_db_leaking(db, image_id, u) ==
    IF image_id \in DOMAIN db
    THEN IF CanRead(u, db[image_id]) THEN db[image_id] ELSE Redacted(db[image_id])
    ELSE NoImage

\* None for an image that is absent or that the user may not read.
get_image_db(db, image_id, u) ==
    IF image_id \in DOMAIN db /\ CanRead(u, db[image_id]) THEN db[image_id] ELSE NoImage

Remove(db, image_id) == [i \in DOMAIN db \ {image_id} |-> db[i]]

\* The latest transformed image of the image, None when it has none.
Latest(rows) == CHOOSE t \in rows : \A o \in rows : o.id <= t.id

get_transformed_image_db(db, image_id) ==
    LET rows == {t \in db : t.image_id = image_id}
    IN IF rows = {} THEN NoLink ELSE Latest(rows).link

generate_qrcode_by_image(link) == <<"qrcode">> \o link

RoleAccess(allowed_roles, u) == Role(u) \in allowed_roles

EveryRole == {"admin", "moderator", "user"}

ListAllowedRoles == {"admin", "moderator"}

(* ------------------------------- upload ------------------------------ *)

SizeExceedsOrEqual(file_size) == file_size >= max_size

SizeExceeds(file_size) == file_size > max_size

\* Lines 47-54: the size check, then the call of the storage service.
upload_image(s) ==
    LET r == req[s]
    IN /\ r.op = "upload" /\ r.pc = "body"
       /\ IF SizeExceeds(r.size)
          THEN /\ Finish(s, r, Response(400, "File size exceeds 5MB", {}, <<>>))
               /\ UNCHANGED assets
          ELSE \E n \in 1..MaxRand :
                 LET public_id == PublicId("PhotoShare", r.user, n)
                 IN \E result \in CloudResults(public_id) :
                      LET c == [r EXCEPT !.calls = @ + 1]
                      IN /\ assets' = Stored(result)
                         /\ IF Raised(result)
                            THEN Finish(s, c, ServerError)
                            ELSE req' = [req EXCEPT ![s] =
                                           [c EXCEPT !.pc = "save", !.link = result.secure_url]]
       /\ UNCHANGED <<images, transformed, hits, window, started, nextId, nextTid>>

\* Line 55: the row of the new image, owned by the caller.
create_image(s) ==
    LET r == req[s]
        row == [id |-> nextId, user_id |-> r.user, link |-> r.link,
                description |-> r.description]
    IN /\ r.op = "upload" /\ r.pc = "save"
       /\ images' = (nextId :> row) @@ images
       /\ nextId' = nextId + 1
       /\ Finish(s, r, Response(201, "", {row}, <<>>))
       /\ UNCHANGED <<transformed, assets, hits, window, started, nextTid>>

(* ------------------------ delete, update and get --------------------- *)

\* delete_image_db removes the image and, with it, its transformed images;
\* None when the image is absent or the user may not delete it.
delete_image(s) ==
    LET r == [req[s] EXCEPT !.found = Raw(images, req[s].image_id)]
    IN /\ r.op = "delete" /\ r.pc = "body"
       /\ IF r.image_id \in DOMAIN images /\ CanDelete(r.user, images[r.image_id])
          THEN /\ images' = Remove(images, r.image_id)
               /\ transformed' = {t \in transformed : t.image_id # r.image_id}
               /\ Finish(s, [r EXCEPT !.removed = TRUE],
                         Response(200, "Image deleted", {}, <<>>))
          ELSE /\ Finish(s, r, NotFound)
               /\ UNCHANGED <<images, transformed>>
       /\ UNCHANGED <<assets, hits, window, started, nextId, nextTid>>

update_description(s) ==
    LET r == req[s]
    IN /\ r.op = "update" /\ r.pc = "body"
       /\ IF r.image_id \in DOMAIN images /\ CanWrite(r.user, images[r.image_id])
          THEN /\ images' = [images EXCEPT ![r.image_id].description = r.description]
               /\ Finish(s, r, Response(200, "", {images'[r.image_id]}, <<>>))
          ELSE /\ Finish(s, r, NotFound)
               /\ UNCHANGED images
       /\ UNCHANGED <<transformed, assets, hits, window, started, nextId, nextTid>>

\* Lines 121-124: the image, or 404 for None.
GetImageResponse(db, image_id, u) ==
    LET image == get_image_db(db, image_id, u)
    IN IF image = NoImage THEN NotFound ELSE Response(200, "", {image}, <<>>)

get_image(s) ==
    LET r == [req[s] EXCEPT !.found = Raw(images, req[s].image_id)]
    IN /\ r.op = "get" /\ r.pc = "body"
       /\ Finish(s, r, GetImageResponse(images, r.image_id, r.user))
       /\ UNCHANGED <<images, transformed, assets, hits, window, started, nextId, nextTid>>

(* --------------------------- crop and effect ------------------------- *)

ImageMissingNever(image) == FALSE

ImageMissing(image) == image = NoImage

\* Lines 147-149 and 177-179: the image as the caller may read it, or 404.
TransformLookup(s, op) ==
    LET image == get_image_db(images, req[s].image_id, req[s].user)
        r == [req[s] EXCEPT !.found = Raw(images, req[s].image_id),
                            !.denied = (image = NoImage)]
    IN /\ r.op = op /\ r.pc = "body"
       /\ IF ImageMissing(image)
          THEN Finish(s, r, NotFound)
          ELSE req' = [req EXCEPT ![s] = [r EXCEPT !.pc = "cloud", !.image = image]]
       /\ UNCHANGED <<images, transformed, assets, hits, window, started, nextId, nextTid>>

TransformSourceNone(image) == NoLink

\* Lines 152 and 181: what the service is given to transform.
TransformSource(image) == image.link

\* Lines 151-155 and 180-183: the image's link goes to the service, which
\* stores the derived asset under a fresh public id.
TransformCall(s, op) ==
    LET r == req[s]
    IN /\ r.op = op /\ r.pc = "cloud"
       /\ \E n \in 1..MaxRand :
            LET public_id == PublicId("PhotoShare(transformed)", r.user, n)
            IN \E result \in CloudResults(public_id) :
                 LET c == [r EXCEPT !.calls = @ + 1, !.sent = TransformSource(r.image)]
                 IN /\ assets' = Stored(result)
                    /\ IF Raised(result)
                       THEN Finish(s, c, ServerError)
                       ELSE req' = [req EXCEPT ![s] =
                                      [c EXCEPT !.pc = "save", !.link = result.secure_url]]
       /\ UNCHANGED <<images, transformed, hits, window, started, nextId, nextTid>>

crop_image(s) == TransformLookup(s, "crop") \/ TransformCall(s, "crop")

use_effect(s) == TransformLookup(s, "effect") \/ TransformCall(s, "effect")

\* Lines 156 and 184: the row of the derived image, linked to its parent.
\* The parent reference is a foreign key: the insert fails once the parent
\* is gone.
save_transformed_image(s) ==
    LET r == req[s]
        row == [id |-> nextTid, image_id |-> r.image_id, link |-> r.link]
    IN /\ r.op \in {"crop", "effect"} /\ r.pc = "save"
       /\ IF r.image_id \in DOMAIN images
          THEN /\ transformed' = transformed \cup {row}
               /\ nextTid' = nextTid + 1
               /\ Finish(s, r, Response(200, "", {row}, <<>>))
          ELSE /\ Finish(s, r, ServerError)
               /\ UNCHANGED <<transformed, nextTid>>
       /\ UNCHANGED <<images, assets, hits, window, started, nextId>>

(* ------------------------------ QR code ------------------------------ *)

\* Lines 203-206: the lookup takes the image identifier alone.
generate_qrcode(s) ==
    LET r == [req[s] EXCEPT !.found = Raw(images, req[s].image_id)]
        link == get_transformed_image_db(transformed, r.image_id)
    IN /\ r.op = "qrcode" /\ r.pc = "body"
       /\ IF link = NoLink
          THEN Finish(s, r, NotFound)
          ELSE Finish(s, [r EXCEPT !.link = link],
                      Response(200, "", {}, generate_qrcode_by_image(link)))
       /\ UNCHANGED <<images, transformed, assets, hits, window, started, nextId, nextTid>>

(* --------------------------- list by user ---------------------------- *)

\* Lines 252-253: a request to list arrives (the route has no limiter) and
\* meets the role gate, which raises 403.
role_access(s) ==
    /\ Arrives(s)
    /\ \E u \in Users, target \in Users :
         LET r == [IdleRequest EXCEPT !.op = "list", !.user = u, !.image_id = target]
         IN IF RoleAccess(ListAllowedRoles, u)
            THEN req' = [req EXCEPT ![s] = [r EXCEPT !.pc = "read"]]
            ELSE Finish(s, r, Response(403, "FORBIDDEN", {}, <<>>))
    /\ UNCHANGED <<images, transformed, assets, hits, window, nextId, nextTid>>

\* Lines 254-255: the images of the target user.
get_images_by_user_id(s) ==
    LET r == req[s]
        rows == {images[i] : i \in {j \in DOMAIN images : images[j].user_id = r.image_id}}
    IN /\ r.op = "list" /\ r.pc = "read"
       /\ Finish(s, [r EXCEPT !.reads = @ + 1], Response(200, "", rows, <<>>))
       /\ UNCHANGED <<images, transformed, assets, hits, window, started, nextId, nextTid>>

(* ---------------------------- specification -------------------------- *)

Next ==
    \/ \E s \in Slots : UploadLimiter(s)
    \/ \E s \in Slots : RouteLimiter(s)
    \/ \E s \in Slots : upload_image(s)
    \/ \E s \in Slots : create_image(s)
    \/ \E s \in Slots : delete_image(s)
    \/ \E s \in Slots : update_description(s)
    \/ \E s \in Slots : get_image(s)
    \/ \E s \in Slots : crop_image(s)
    \/ \E s \in Slots : use_effect(s)
    \/ \E s \in Slots : save_transformed_image(s)
    \/ \E s \in Slots : generate_qrcode(s)
    \/ \E s \in Slots : role_access(s)
    \/ \E s \in Slots : get_images_by_user_id(s)

Spec == Init /\ [][Next]_vars

(* ------------------------------ properties --------------------------- *)

Handled(r) == r.pc = "done" /\ r.resp # TooManyRequests

\* C1: an upload of more than 5*1024*1024 bytes ends with the 400 of the size
\* check (unless the limiter turned it away first), never reaches the storage
\* service and creates no image; an upload of exactly 5*1024*1024 bytes is
\* not answered with the 400 of the size check.
C1_OversizeUploadRejected ==
    \A s \in Slots :
       LET r == req[s]
       IN r.op = "upload" =>
            /\ r.size > 5 * 1024 * 1024 =>
                 /\ r.calls = 0
                 /\ r.pc \in {"body", "done"}
                 /\ r.resp.data = {}
                 /\ r.link = NoLink
                 /\ Handled(r) => r.resp.status = 400
            /\ r.size = 5 * 1024 * 1024 => r.resp.status # 400

C1_Witness ==
    \E s, o \in Slots :
       /\ req[s].op = "upload" /\ req[s].size > 5 * 1024 * 1024
       /\ req[s].pc = "done" /\ req[s].resp.status = 400
       /\ req[o].op = "upload" /\ req[o].size = 5 * 1024 * 1024
       /\ req[o].resp.status = 201

Permitted(u, image) == Role(u) = "admin" \/ image.user_id = u

C2_Answer ==
    \A s \in Slots :
       LET r == req[s]
       IN r.op = "delete" /\ r.pc = "done" =>
            /\ r.removed <=> (r.found # NoImage /\ Permitted(r.user, r.found))
            /\ r.removed <=> r.resp.status = 200
            /\ ~r.removed => r.resp = NotFound

C2_Step ==
    \A i \in DOMAIN images :
       i \notin DOMAIN images' =>
          \E s \in Slots :
             /\ req[s].op = "delete" /\ req[s].pc = "body" /\ req[s].image_id = i
             /\ req'[s].pc = "done" /\ req'[s].removed
             /\ Permitted(req[s].user, images[i])

\* C2: a delete removes the image iff the caller is an admin or the image's
\* owner, and no step ever removes an image other than the delete of such a
\* caller.
C2_DeleteOnlyByOwnerOrAdmin == []C2_Answer /\ [][C2_Step]_vars

C2_Witness ==
    \E s, o \in Slots :
       /\ req[s].op = "delete" /\ req[s].pc = "done" /\ req[s].found # NoImage
       /\ Role(req[s].user) # "admin" /\ req[s].found.user_id # req[s].user
       /\ req[s].resp = NotFound
       /\ req[o].op = "delete" /\ req[o].pc = "done" /\ req[o].removed
       /\ req[o].image_id = req[s].image_id

C3_Step ==
    \A s \in Slots :
       (req'[s] # req[s] /\ req'[s].op \in {"crop", "effect"} /\ req'[s].denied) =>
          /\ images' = images
          /\ transformed' = transformed
          /\ assets' = assets
          /\ req'[s].calls = 0
          /\ req'[s].pc = "done"
          /\ req'[s].resp = NotFound

\* C3: a crop or effect request on an image that is absent or that the caller
\* may not read ends with 404 in a step that leaves the Image rows, the
\* TransformedImage rows and the remote store as they were, and it never
\* calls the transformation service.
C3_DeniedTransformChangesNothing == [][C3_Step]_vars

C3_Witness ==
    \E s, o \in Slots :
       /\ req[s].op = "crop" /\ req[s].pc = "done" /\ req[s].denied
       /\ req[s].found # NoImage /\ req[s].resp = NotFound
       /\ req[o].op = "effect" /\ req[o].pc = "done" /\ req[o].denied
       /\ req[o].found = NoImage /\ req[o].resp = NotFound

\* C4: a row is written only by a request whose call of the external service
\* returned, a request whose call failed ends with an error and no row, and
\* the URL of every stored row is one the service returned.
C4_PersistOnlyAfterExternalSuccess ==
    /\ \A i \in DOMAIN images : images[i].link \in assets
    /\ \A t \in transformed : t.link \in assets
    /\ \A s \in Slots :
          LET r == req[s]
          IN r.op \in {"upload", "crop", "effect"} =>
               /\ r.pc = "save" => r.calls = 1 /\ r.link \in assets
               /\ r.resp.data # {} =>
                    /\ r.calls = 1 /\ r.link \in assets
                    /\ \A row \in r.resp.data : row.link = r.link
               /\ (r.calls = 1 /\ r.link = NoLink) =>
                    r.pc = "done" /\ r.resp = ServerError

C4_Witness ==
    \E s, o \in Slots :
       /\ req[s].op = "upload" /\ req[s].calls = 1 /\ req[s].link = NoLink
       /\ req[s].resp = ServerError
       /\ req[o].op = "crop" /\ req[o].calls = 1 /\ req[o].link = NoLink
       /\ req[o].resp = ServerError

C6_ListOnlyForStaff ==
    \A s \in Slots :
       LET r == req[s]
       IN r.op = "list" =>
            /\ (r.pc = "read" \/ r.reads > 0 \/ r.resp.status = 200 \/ r.resp.data # {})
                  => Role(r.user) \in {"admin", "moderator"}
            /\ Role(r.user) = "user" =>
                  r.pc = "done" /\ r.resp.status = 403 /\ r.reads = 0
            /\ r.resp.status = 200 => r.reads = 1

C6_Witness ==
    \E s, o \in Slots :
       /\ req[s].op = "list" /\ Role(req[s].user) = "user"
       /\ req[s].resp.status = 403
       /\ \E i \in DOMAIN images : images[i].user_id = req[s].image_id
       /\ req[o].op = "list" /\ Role(req[o].user) = "moderator"
       /\ req[o].resp.status = 200 /\ req[o].resp.data # {}

C7_Step ==
    \A s \in Slots :
       LET r == req[s]
       IN (r.op \in {"crop", "effect"} /\ r.pc \in {"body", "cloud", "save"}
             /\ req'[s] # r) =>
            /\ images' = images
            /\ transformed \subseteq transformed'
            /\ (req'[s].pc = "done" /\ req'[s].resp.status = 200) =>
                 /\ r.pc = "save"
                 /\ r.image_id \in DOMAIN images
                 /\ r.sent = images[r.image_id].link
                 /\ r.link \in assets
                 /\ \E row \in transformed' :
                      /\ row \notin transformed
                      /\ transformed' = transformed \cup {row}
                      /\ row.image_id = r.image_id
                      /\ row.link = r.link
                      /\ req'[s].resp.data = {row}
            /\ ~(req'[s].pc = "done" /\ req'[s].resp.status = 200) =>
                 transformed' = transformed

\* C7: a crop or effect request that succeeds on image I was sent to the
\* service with I's link and adds exactly one TransformedImage row, with
\* parent I and the URL the service returned; no step of the request changes
\* an Image row or an earlier TransformedImage row.
C7_TransformIsAdditive == [][C7_Step]_vars

C7_Witness ==
    \E s, o \in Slots :
       /\ req[s].op = "crop" /\ req[s].pc = "done" /\ req[s].resp.status = 200
       /\ req[o].op = "effect" /\ req[o].pc = "done" /\ req[o].resp.status = 200
       /\ req[s].resp.data \cup req[o].resp.data \subseteq transformed
       /\ Cardinality(transformed) = 2

\* C8: for a user who may not read an image, every get is answered the same
\* whether the image is in the store or not: the 404 of an absent image.
C8_GetHidesInaccessible ==
    /\ \A u \in Users : \A i \in DOMAIN images :
          ~CanRead(u, images[i]) =>
             \A j \in ImageIds :
                GetImageResponse(images, j, u) = GetImageResponse(Remove(images, i), j, u)
    /\ \A s \in Slots :
          LET r == req[s]
          IN (r.op = "get" /\ r.pc = "done") =>
               /\ (r.found # NoImage /\ ~CanRead(r.user, r.found)) =>
                     r.resp = GetImageResponse(<<>>, r.image_id, r.user)
               /\ r.found = NoImage => r.resp = NotFound

C8_Witness ==
    \E s, o \in Slots :
       /\ req[s].op = "get" /\ req[s].pc = "done" /\ req[s].found # NoImage
       /\ ~CanRead(req[s].user, req[s].found)
       /\ req[o].op = "get" /\ req[o].pc = "done" /\ req[o].found = NoImage
       /\ req[o].user = req[s].user
       /\ req[s].resp = req[o].resp

\* C9: a QR payload goes only to a caller who may read the image.
C9_QrOnlyForReaders ==
    \A s \in Slots :
       LET r == req[s]
       IN (r.op = "qrcode" /\ r.pc = "done" /\ r.resp.status = 200) =>
            r.found # NoImage /\ CanRead(r.user, r.found)

\* C10: the images in the store never share a remote asset: the public ids
\* behind their links are pairwise distinct.
C10_PublicIdsDistinct ==
    \A i, j \in DOMAIN images : i # j => images[i].link # images[j].link

====
